---- MODULE Spec2Model ----
(***************************************************************************)
(* A model of the two routing scripts of the repository:                   *)
(*   src/src/chapter1/chapter01.py  (run_coordinator, booking/info stubs)  *)
(*   src/src/chapter2/agent.py      (run_support_coordinator, the support  *)
(*                                   stubs, the credential start-up code)  *)
(* The ADK runner, its session service and the events it yields are the    *)
(* external delegation collaborator: their behaviour for one request is a  *)
(* "script" chosen nondeterministically when the request is submitted.     *)
(***************************************************************************)
EXTENDS Integers, Sequences, FiniteSets, TLC

\* ------------------------------------------------------------------ bounds
\* Longest event sequence the collaborator yields for one request.
MaxEvents == 2
\* Number of requests submitted to one runner.
MaxCalls == 2
\* Number of direct stub handler calls in one behaviour.
MaxHandlerCalls == 2

\* ------------------------------------------------------------------ values
\* Python strings are TLA+ strings. A Python value that may be None is a record.
Str(s) == [type |-> "str", val |-> s]
None == [type |-> "NoneType", val |-> ""]
NotReturned == [type |-> "<running>", val |-> ""]

\* The two request flows: run_coordinator and run_support_coordinator.
Flows == {"ch1", "ch2"}

\* The example requests of the two main() drivers.
Requests == {"Book me a hotel in Paris.", "What are the payment options available?"}

\* event.content of an event: None, or a Content with an optional text
\* attribute and a list of parts. A part's text that is None or "" is "" here:
\* the code only tests it for truthiness.
NoContent == [is_none |-> TRUE, has_text |-> FALSE, text |-> "", parts |-> <<>>]
Content(h, t, p) == [is_none |-> FALSE, has_text |-> h, text |-> t, parts |-> p]

\* What the generator returned by runner.run() does when asked for its next
\* item: it raises, or it yields an event. An event is a final response or not,
\* and inspecting it (is_final_response()) may raise.
RaiseItem == [kind |-> "raise", final |-> FALSE, broken |-> FALSE, content |-> NoContent]
Ev(f, b, c) == [kind |-> "event", final |-> f, broken |-> b, content |-> c]
NoEvent == [kind |-> "none", final |-> FALSE, broken |-> FALSE, content |-> NoContent]

Items ==
  { RaiseItem,
    Ev(FALSE, TRUE, NoContent),
    Ev(FALSE, FALSE, Content(TRUE, "partial", <<>>)),
    Ev(TRUE, FALSE, NoContent),
    Ev(TRUE, FALSE, Content(TRUE, "A", <<"B">>)),
    Ev(TRUE, FALSE, Content(FALSE, "", <<"B", "", "C">>)),
    Ev(TRUE, FALSE, Content(TRUE, "", <<"">>)),
    Ev(TRUE, FALSE, Content(FALSE, "", <<>>)) }

RECURSIVE SeqsUpTo(_, _)
SeqsUpTo(S, n) ==
  IF n = 0 THEN {<<>>}
  ELSE LET shorter == SeqsUpTo(S, n - 1)
       IN shorter \cup {Append(s, x) : s \in {t \in shorter : Len(t) = n - 1}, x \in S}

\* The collaborator's behaviour for one request.
Scripts ==
  [create : {"ok", "raise"}, run : {"ok", "raise"}, events : SeqsUpTo(Items, MaxEvents)]

\* ------------------------------------------------------------------ state
VARIABLES
  request,        \* the request string of the request in progress
  script,         \* the collaborator's behaviour for it
  ncalls,         \* requests submitted so far
  pc,             \* per flow: position in the runner function
  final_result,   \* per flow: the local final_result
  session_id,     \* per flow: the local session_id
  event,          \* per flow: the loop variable
  idx,            \* per flow: events pulled from the generator so far
  exc,            \* per flow: message of the exception in flight
  ret,            \* per flow: the value the runner returned
  calls,          \* per flow: collaborator calls made for this request
  stdout,         \* per flow: lines printed for this request
  uuid_state,     \* per flow: state of the process's uuid generator
  sessions,       \* per flow: session ids given to create_session, all requests
  hcall,          \* the last direct stub handler call: handler, argument, result, print
  hlog,           \* every <<handler, argument, result>> observed so far
  nhandler,       \* number of direct stub handler calls so far
  environ,        \* os.environ of the chapter 2 process
  environ_at_start,  \* os.environ as the process was started
  files,          \* the paths for which os.path.exists() is true
  startup_pc,     \* position in the chapter 2 module-level start-up code
  service_account_path, \* the module-level variable of chapter 2
  startup_out     \* lines printed by the chapter 2 start-up code

handler_vars == <<hcall, hlog, nhandler>>

startup_vars == <<environ, environ_at_start, files, startup_pc, service_account_path,
                  startup_out>>

vars == <<request, script, ncalls, pc, final_result, session_id, event, idx, exc,
          ret, calls, stdout, uuid_state, sessions, hcall, hlog, nhandler, environ,
          environ_at_start, files, startup_pc, service_account_path, startup_out>>

runner_vars == <<request, script, ncalls, pc, final_result, session_id, event, idx,
                 exc, ret, calls, stdout, uuid_state, sessions>>

Upd(fn, f, v) == [fn EXCEPT ![f] = v]

\* One collaborator call as the runner makes it, with how it ended.
Call(op, sid, text, outcome) == [op |-> op, sid |-> sid, text |-> text, outcome |-> outcome]

\* ------------------------------------------------------------------ helpers
\* A generator that hands out the same token again.
NextUuidStuck(n) == n

\* uuid.uuid4(): a fresh token on each call; tokens are numbered.
NextUuid(n) == n + 1

\* [part.text for part in event.content.parts if part.text]
RECURSIVE TextParts(_)
TextParts(parts) ==
  IF parts = <<>> THEN <<>>
  ELSE IF Head(parts) # "" THEN <<Head(parts)>> \o TextParts(Tail(parts))
       ELSE TextParts(Tail(parts))

\* " ".join(text_parts)
RECURSIVE Join(_)
Join(texts) ==
  IF texts = <<>> THEN ""
  ELSE IF Len(texts) = 1 THEN texts[1]
       ELSE texts[1] \o " " \o Join(Tail(texts))

\* Exception messages, by the place the collaborator raises.
ExcCreate == "create_session failed"
ExcRun == "run failed"
ExcNext == "event stream failed"
ExcInspect == "event inspection failed"
ExcMessages == {ExcCreate, ExcRun, ExcNext, ExcInspect}

\* -------------------------------------------------- chapter 1: run_coordinator
\* The assignment to final_result inside the final-response branch.
rc_extract(content, fr) ==
  IF content.has_text /\ content.text # "" THEN content.text
  ELSE IF content.parts # <<>> THEN Join(TextParts(content.parts))
       ELSE fr

\* The string the except clause returns.
rc_error(e) == "An error occurred while processing your request: " \o e

\* Entry: the banner is printed and final_result is initialised.
rc_enter ==
  /\ pc["ch1"] = "start"
  /\ stdout' = Upd(stdout, "ch1",
        Append(stdout["ch1"], " --- Running Coordinator for request: '" \o request \o "' --- "))
  /\ final_result' = Upd(final_result, "ch1", "")
  /\ pc' = Upd(pc, "ch1", "uuid")
  /\ UNCHANGED <<request, script, ncalls, session_id, event, idx, exc, ret, calls,
                 uuid_state, sessions>>
  /\ UNCHANGED <<handler_vars, startup_vars>>

\* session_id = str(uuid.uuid4())
rc_uuid ==
  /\ pc["ch1"] = "uuid"
  /\ uuid_state' = Upd(uuid_state, "ch1", NextUuid(uuid_state["ch1"]))
  /\ session_id' = Upd(session_id, "ch1", uuid_state'["ch1"])
  /\ pc' = Upd(pc, "ch1", "create")
  /\ UNCHANGED <<request, script, ncalls, final_result, event, idx, exc, ret, calls,
                 stdout, sessions>>
  /\ UNCHANGED <<handler_vars, startup_vars>>

\* await runner.session_service.create_session(...)
rc_create_session ==
  /\ pc["ch1"] = "create"
  /\ calls' = Upd(calls, "ch1",
        Append(calls["ch1"], Call("create_session", session_id["ch1"], "", script.create)))
  /\ sessions' = Upd(sessions, "ch1", Append(sessions["ch1"], session_id["ch1"]))
  /\ IF script.create = "raise"
       THEN /\ exc' = Upd(exc, "ch1", ExcCreate)
            /\ pc' = Upd(pc, "ch1", "except")
       ELSE /\ exc' = exc
            /\ pc' = Upd(pc, "ch1", "run")
  /\ UNCHANGED <<request, script, ncalls, final_result, session_id, event, idx, ret,
                 stdout, uuid_state>>
  /\ UNCHANGED <<handler_vars, startup_vars>>

\* runner.run(user_id=..., session_id=session_id, new_message=<request>)
rc_run ==
  /\ pc["ch1"] = "run"
  /\ calls' = Upd(calls, "ch1",
        Append(calls["ch1"], Call("run", session_id["ch1"], request, script.run)))
  /\ IF script.run = "raise"
       THEN /\ exc' = Upd(exc, "ch1", ExcRun)
            /\ pc' = Upd(pc, "ch1", "except")
       ELSE /\ exc' = exc
            /\ pc' = Upd(pc, "ch1", "next")
  /\ UNCHANGED <<request, script, ncalls, final_result, session_id, event, idx, ret,
                 stdout, uuid_state, sessions>>
  /\ UNCHANGED <<handler_vars, startup_vars>>

\* The for statement asks the generator for its next event. When the generator
\* is exhausted the loop ends and so does the function: there is no statement
\* after the loop, and the function returns None.
rc_next ==
  /\ pc["ch1"] = "next"
  /\ IF idx["ch1"] >= Len(script.events)
       THEN /\ calls' = Upd(calls, "ch1", Append(calls["ch1"], Call("next", 0, "", "stop")))
            /\ ret' = Upd(ret, "ch1", None)
            /\ pc' = Upd(pc, "ch1", "done")
            /\ UNCHANGED <<idx, event, exc>>
       ELSE LET item == script.events[idx["ch1"] + 1] IN
            /\ idx' = Upd(idx, "ch1", idx["ch1"] + 1)
            /\ IF item.kind = "raise"
                 THEN /\ calls' = Upd(calls, "ch1",
                            Append(calls["ch1"], Call("next", 0, "", "raise")))
                      /\ exc' = Upd(exc, "ch1", ExcNext)
                      /\ pc' = Upd(pc, "ch1", "except")
                      /\ UNCHANGED <<event, ret>>
                 ELSE /\ calls' = Upd(calls, "ch1",
                            Append(calls["ch1"], Call("next", 0, "", "ok")))
                      /\ event' = Upd(event, "ch1", item)
                      /\ pc' = Upd(pc, "ch1", "body")
                      /\ UNCHANGED <<exc, ret>>
  /\ UNCHANGED <<request, script, ncalls, final_result, session_id, stdout,
                 uuid_state, sessions>>
  /\ UNCHANGED <<handler_vars, startup_vars>>

\* The loop body with the return placed after the loop: an event that is not a
\* final response with content lets the loop go on to the next event.
rc_body_return_after_loop ==
  /\ pc["ch1"] = "body"
  /\ LET ev == event["ch1"] IN
     IF ev.broken
       THEN /\ calls' = Upd(calls, "ch1",
                  Append(calls["ch1"], Call("is_final_response", 0, "", "raise")))
            /\ exc' = Upd(exc, "ch1", ExcInspect)
            /\ pc' = Upd(pc, "ch1", "except")
            /\ UNCHANGED <<final_result, ret, stdout>>
       ELSE /\ calls' = Upd(calls, "ch1",
                  Append(calls["ch1"], Call("is_final_response", 0, "", "ok")))
            /\ exc' = exc
            /\ stdout' = stdout
            /\ IF ev.final /\ ~ev.content.is_none
                 THEN /\ final_result' = Upd(final_result, "ch1",
                            rc_extract(ev.content, final_result["ch1"]))
                      /\ ret' = Upd(ret, "ch1", Str(final_result'["ch1"]))
                      /\ pc' = Upd(pc, "ch1", "done")
                 ELSE /\ pc' = Upd(pc, "ch1", "next")
                      /\ UNCHANGED <<final_result, ret>>
  /\ UNCHANGED <<request, script, ncalls, session_id, event, idx, uuid_state, sessions>>
  /\ UNCHANGED <<handler_vars, startup_vars>>

\* The loop body. A final response with content sets final_result and breaks:
\* the function then ends without a return statement and returns None.
\* Any other event reaches the print and the return inside the loop.
rc_body ==
  /\ pc["ch1"] = "body"
  /\ LET ev == event["ch1"] IN
     IF ev.broken
       THEN /\ calls' = Upd(calls, "ch1",
                  Append(calls["ch1"], Call("is_final_response", 0, "", "raise")))
            /\ exc' = Upd(exc, "ch1", ExcInspect)
            /\ pc' = Upd(pc, "ch1", "except")
            /\ UNCHANGED <<final_result, ret, stdout>>
       ELSE /\ calls' = Upd(calls, "ch1",
                  Append(calls["ch1"], Call("is_final_response", 0, "", "ok")))
            /\ exc' = exc
            /\ IF ev.final /\ ~ev.content.is_none
                 THEN /\ final_result' = Upd(final_result, "ch1",
                            rc_extract(ev.content, final_result["ch1"]))
                      /\ ret' = Upd(ret, "ch1", None)
                      /\ pc' = Upd(pc, "ch1", "done")
                      /\ stdout' = stdout
                 ELSE /\ stdout' = Upd(stdout, "ch1",
                            Append(stdout["ch1"],
                                   "Coordinator Final Response: " \o final_result["ch1"]))
                      /\ ret' = Upd(ret, "ch1", Str(final_result["ch1"]))
                      /\ pc' = Upd(pc, "ch1", "done")
                      /\ final_result' = final_result
  /\ UNCHANGED <<request, script, ncalls, session_id, event, idx, uuid_state, sessions>>
  /\ UNCHANGED <<handler_vars, startup_vars>>

\* An except clause that lets the exception leave the function.
rc_except_propagate ==
  /\ pc["ch1"] = "except"
  /\ ret' = Upd(ret, "ch1", [type |-> "raised", val |-> exc["ch1"]])
  /\ pc' = Upd(pc, "ch1", "done")
  /\ UNCHANGED <<request, script, ncalls, final_result, session_id, event, idx, exc,
                 calls, stdout, uuid_state, sessions>>
  /\ UNCHANGED <<handler_vars, startup_vars>>

\* except Exception as e: print and return the error string.
rc_except ==
  /\ pc["ch1"] = "except"
  /\ stdout' = Upd(stdout, "ch1",
        Append(stdout["ch1"],
               "An error occurred while processing the your request: " \o exc["ch1"]))
  /\ ret' = Upd(ret, "ch1", Str(rc_error(exc["ch1"])))
  /\ pc' = Upd(pc, "ch1", "done")
  /\ UNCHANGED <<request, script, ncalls, final_result, session_id, event, idx, exc,
                 calls, uuid_state, sessions>>
  /\ UNCHANGED <<handler_vars, startup_vars>>

run_coordinator ==
  \/ rc_enter
  \/ rc_uuid
  \/ rc_create_session
  \/ rc_run
  \/ rc_next
  \/ rc_body
  \/ rc_except

\* -------------------------------------------------- chapter 2: run_support_coordinator
\* The assignment to final_result inside the final-response branch.
rsc_extract(content, fr) ==
  IF content.has_text /\ content.text # "" THEN content.text
  ELSE IF content.parts # <<>> THEN Join(TextParts(content.parts))
       ELSE fr

\* The error string with the wording of the printed message.
rsc_error_reworded(e) == "An error occurred while processing the request: " \o e

\* The string the except clause returns.
rsc_error(e) == "An error occurred while processing your request: " \o e

\* Entry: the banner is printed and final_result is initialised.
rsc_enter ==
  /\ pc["ch2"] = "start"
  /\ stdout' = Upd(stdout, "ch2",
        Append(stdout["ch2"], " --- Running Support Coordinator for request: '" \o request \o "' --- "))
  /\ final_result' = Upd(final_result, "ch2", "")
  /\ pc' = Upd(pc, "ch2", "uuid")
  /\ UNCHANGED <<request, script, ncalls, session_id, event, idx, exc, ret, calls,
                 uuid_state, sessions>>
  /\ UNCHANGED <<handler_vars, startup_vars>>

\* session_id = str(uuid.uuid4())
rsc_uuid ==
  /\ pc["ch2"] = "uuid"
  /\ uuid_state' = Upd(uuid_state, "ch2", NextUuid(uuid_state["ch2"]))
  /\ session_id' = Upd(session_id, "ch2", uuid_state'["ch2"])
  /\ pc' = Upd(pc, "ch2", "create")
  /\ UNCHANGED <<request, script, ncalls, final_result, event, idx, exc, ret, calls,
                 stdout, sessions>>
  /\ UNCHANGED <<handler_vars, startup_vars>>

\* await runner.session_service.create_session(...)
rsc_create_session ==
  /\ pc["ch2"] = "create"
  /\ calls' = Upd(calls, "ch2",
        Append(calls["ch2"], Call("create_session", session_id["ch2"], "", script.create)))
  /\ sessions' = Upd(sessions, "ch2", Append(sessions["ch2"], session_id["ch2"]))
  /\ IF script.create = "raise"
       THEN /\ exc' = Upd(exc, "ch2", ExcCreate)
            /\ pc' = Upd(pc, "ch2", "except")
       ELSE /\ exc' = exc
            /\ pc' = Upd(pc, "ch2", "run")
  /\ UNCHANGED <<request, script, ncalls, final_result, session_id, event, idx, ret,
                 stdout, uuid_state>>
  /\ UNCHANGED <<handler_vars, startup_vars>>

\* runner.run(user_id=..., session_id=session_id, new_message=<request>)
rsc_run ==
  /\ pc["ch2"] = "run"
  /\ calls' = Upd(calls, "ch2",
        Append(calls["ch2"], Call("run", session_id["ch2"], request, script.run)))
  /\ IF script.run = "raise"
       THEN /\ exc' = Upd(exc, "ch2", ExcRun)
            /\ pc' = Upd(pc, "ch2", "except")
       ELSE /\ exc' = exc
            /\ pc' = Upd(pc, "ch2", "next")
  /\ UNCHANGED <<request, script, ncalls, final_result, session_id, event, idx, ret,
                 stdout, uuid_state, sessions>>
  /\ UNCHANGED <<handler_vars, startup_vars>>

\* The for statement asks the generator for its next event. When the generator
\* is exhausted the loop ends and so does the function: there is no statement
\* after the loop, and the function returns None.
rsc_next ==
  /\ pc["ch2"] = "next"
  /\ IF idx["ch2"] >= Len(script.events)
       THEN /\ calls' = Upd(calls, "ch2", Append(calls["ch2"], Call("next", 0, "", "stop")))
            /\ ret' = Upd(ret, "ch2", None)
            /\ pc' = Upd(pc, "ch2", "done")
            /\ UNCHANGED <<idx, event, exc>>
       ELSE LET item == script.events[idx["ch2"] + 1] IN
            /\ idx' = Upd(idx, "ch2", idx["ch2"] + 1)
            /\ IF item.kind = "raise"
                 THEN /\ calls' = Upd(calls, "ch2",
                            Append(calls["ch2"], Call("next", 0, "", "raise")))
                      /\ exc' = Upd(exc, "ch2", ExcNext)
                      /\ pc' = Upd(pc, "ch2", "except")
                      /\ UNCHANGED <<event, ret>>
                 ELSE /\ calls' = Upd(calls, "ch2",
                            Append(calls["ch2"], Call("next", 0, "", "ok")))
                      /\ event' = Upd(event, "ch2", item)
                      /\ pc' = Upd(pc, "ch2", "body")
                      /\ UNCHANGED <<exc, ret>>
  /\ UNCHANGED <<request, script, ncalls, final_result, session_id, stdout,
                 uuid_state, sessions>>
  /\ UNCHANGED <<handler_vars, startup_vars>>

\* The loop body. A final response with content sets final_result and breaks:
\* the function then ends without a return statement and returns None.
\* Any other event reaches the print and the return inside the loop.
rsc_body ==
  /\ pc["ch2"] = "body"
  /\ LET ev == event["ch2"] IN
     IF ev.broken
       THEN /\ calls' = Upd(calls, "ch2",
                  Append(calls["ch2"], Call("is_final_response", 0, "", "raise")))
            /\ exc' = Upd(exc, "ch2", ExcInspect)
            /\ pc' = Upd(pc, "ch2", "except")
            /\ UNCHANGED <<final_result, ret, stdout>>
       ELSE /\ calls' = Upd(calls, "ch2",
                  Append(calls["ch2"], Call("is_final_response", 0, "", "ok")))
            /\ exc' = exc
            /\ IF ev.final /\ ~ev.content.is_none
                 THEN /\ final_result' = Upd(final_result, "ch2",
                            rsc_extract(ev.content, final_result["ch2"]))
                      /\ ret' = Upd(ret, "ch2", None)
                      /\ pc' = Upd(pc, "ch2", "done")
                      /\ stdout' = stdout
                 ELSE /\ stdout' = Upd(stdout, "ch2",
                            Append(stdout["ch2"],
                                   "Support Coordinator Final Response: " \o final_result["ch2"]))
                      /\ ret' = Upd(ret, "ch2", Str(final_result["ch2"]))
                      /\ pc' = Upd(pc, "ch2", "done")
                      /\ final_result' = final_result
  /\ UNCHANGED <<request, script, ncalls, session_id, event, idx, uuid_state, sessions>>
  /\ UNCHANGED <<handler_vars, startup_vars>>

\* An except clause that tries the request again from session creation.
rsc_except_retry ==
  /\ pc["ch2"] = "except"
  /\ pc' = Upd(pc, "ch2", "create")
  /\ UNCHANGED <<request, script, ncalls, final_result, session_id, event, idx, exc,
                 ret, calls, stdout, uuid_state, sessions>>
  /\ UNCHANGED <<handler_vars, startup_vars>>

\* except Exception as e: print and return the error string.
rsc_except ==
  /\ pc["ch2"] = "except"
  /\ stdout' = Upd(stdout, "ch2",
        Append(stdout["ch2"],
               "An error occurred while processing the request: " \o exc["ch2"]))
  /\ ret' = Upd(ret, "ch2", Str(rsc_error(exc["ch2"])))
  /\ pc' = Upd(pc, "ch2", "done")
  /\ UNCHANGED <<request, script, ncalls, final_result, session_id, event, idx, exc,
                 calls, uuid_state, sessions>>
  /\ UNCHANGED <<handler_vars, startup_vars>>

run_support_coordinator ==
  \/ rsc_enter
  \/ rsc_uuid
  \/ rsc_create_session
  \/ rsc_run
  \/ rsc_next
  \/ rsc_body
  \/ rsc_except


\* ------------------------------------------------------- the request driver
\* main() of either script awaits one runner call after another on one runner.
\* A request and the collaborator's behaviour for it are chosen when both
\* flows are idle; each flow then runs it from the top of its function.
SubmitFrom(reqs, scripts) ==
  /\ \A f \in Flows : pc[f] = "idle"
  /\ ncalls < MaxCalls
  /\ \E r \in reqs, sc \in scripts :
       /\ request' = r
       /\ script' = sc
  /\ ncalls' = ncalls + 1
  /\ pc' = [f \in Flows |-> "start"]
  /\ UNCHANGED <<final_result, session_id, event, idx, exc, ret, calls, stdout,
                 uuid_state, sessions, handler_vars, startup_vars>>

\* main() prints the result of the call; the call's locals are gone and the
\* next request may be submitted.
Collect ==
  /\ \A f \in Flows : pc[f] = "done"
  /\ pc' = [f \in Flows |-> "idle"]
  /\ request' = ""
  /\ script' = [create |-> "ok", run |-> "ok", events |-> <<>>]
  /\ final_result' = [f \in Flows |-> ""]
  /\ session_id' = [f \in Flows |-> 0]
  /\ event' = [f \in Flows |-> NoEvent]
  /\ idx' = [f \in Flows |-> 0]
  /\ exc' = [f \in Flows |-> ""]
  /\ ret' = [f \in Flows |-> NotReturned]
  /\ calls' = [f \in Flows |-> <<>>]
  /\ stdout' = [f \in Flows |-> <<>>]
  /\ UNCHANGED <<ncalls, uuid_state, sessions, handler_vars, startup_vars>>

Submit == SubmitFrom(Requests, Scripts)

\* ------------------------------------------------------------ stub handlers
booking_handler(request_) ==
  "Booking action for '" \o request_ \o "' has been simulated."

info_handler(request_) ==
  "Information request for '" \o request_ \o "'. Result: Simulated information retrieval."

unclear_handler(request_) ==
  "Coordinator could not delegate request: '" \o request_ \o "'. Please clarify."

technical_support_handler(issue) ==
  "Technical support for '" \o issue
    \o "': Troubleshooting steps have been provided. Issue logged for tracking."

\* The billing template without the quotes around the argument.
billing_handler_unquoted(inquiry) ==
  "Billing inquiry for " \o inquiry
    \o ": Account information retrieved. Payment status confirmed."

billing_handler(inquiry) ==
  "Billing inquiry for '" \o inquiry
    \o "': Account information retrieved. Payment status confirmed."

\* A product handler whose answer depends on the calls made before.
product_info_handler_counting(question) ==
  "Product information for '" \o question
    \o (IF nhandler = 0 THEN "': Detailed product specifications and features provided."
        ELSE "': Detailed product specifications and features provided. (repeat)")

product_info_handler(question) ==
  "Product information for '" \o question
    \o "': Detailed product specifications and features provided."

Handlers == {"booking_handler", "info_handler", "unclear_handler",
             "technical_support_handler", "billing_handler", "product_info_handler"}

\* The value a handler returns.
HandlerReturn(h, s) ==
  CASE h = "booking_handler" -> booking_handler(s)
    [] h = "info_handler" -> info_handler(s)
    [] h = "unclear_handler" -> unclear_handler(s)
    [] h = "technical_support_handler" -> technical_support_handler(s)
    [] h = "billing_handler" -> billing_handler(s)
    [] h = "product_info_handler" -> product_info_handler(s)

\* The diagnostic line a handler prints; unclear_handler prints nothing.
HandlerPrint(h) ==
  CASE h = "booking_handler" -> "------- Booking Handler Called -------"
    [] h = "info_handler" -> "------- Info Handler Called -------"
    [] h = "unclear_handler" -> ""
    [] h = "technical_support_handler" -> "------- Technical Support Handler Called -------"
    [] h = "billing_handler" -> "------- Billing Handler Called -------"
    [] h = "product_info_handler" -> "------- Product Info Handler Called -------"

\* Arguments the handlers are called with: the empty string, a string holding
\* a single quote, and the billing example of the second driver.
HandlerInputs == {"", "it's", "What are the payment options available?"}

NoHandlerCall == [handler |-> "", arg |-> "", ret |-> "", printed |-> "", repeated |-> FALSE]

\* One direct call of a stub handler, at any moment.
CallHandler ==
  /\ nhandler < MaxHandlerCalls
  /\ \E h \in Handlers, s \in HandlerInputs :
       LET r == HandlerReturn(h, s) IN
       /\ hcall' = [handler |-> h, arg |-> s, ret |-> r, printed |-> HandlerPrint(h),
                    repeated |-> \E t \in hlog : t[1] = h /\ t[2] = s]
       /\ hlog' = hlog \cup {<<h, s, r>>}
  /\ nhandler' = nhandler + 1
  /\ UNCHANGED <<runner_vars, startup_vars>>


\* ------------------------------------- chapter 2: credential start-up code
GAC == "GOOGLE_APPLICATION_CREDENTIALS"
SAKP == "SERVICE_ACCOUNT_KEY_PATH"
EnvNames == {GAC, SAKP}

\* os.environ.get(name): None when the variable is absent.
EnvGet(name) == environ[name]

\* Python truthiness of a str-or-None value.
Truthy(v) == v.type = "str" /\ v.val # ""

\* a or b
Or(a, b) == IF Truthy(a) THEN a ELSE b

\* os.path.dirname(__file__) of agent.py and the process's working directory.
ModuleDir == "/repo/src/chapter2"
Cwd == "/work"

\* os.path.join(os.path.dirname(__file__), '..', '..', 'cred', '<name>.json')
DefaultPath == ModuleDir \o "/../../cred/genai-vertex-data-engineering.json"

RelativePaths == {"keys/gac.json", "keys/sa.json"}

\* os.path.abspath(p): a relative path is joined to the working directory,
\* and the result is normalised ("..", ".").
abspath(p) ==
  IF p \in RelativePaths THEN Cwd \o "/" \o p
  ELSE IF p = DefaultPath THEN "/repo/cred/genai-vertex-data-engineering.json"
       ELSE p

\* os.path.exists(p), for a str p.
exists(p) == p # "" /\ abspath(p) \in files

\* service_account_path = (GAC or SERVICE_ACCOUNT_KEY_PATH or <default path>)
resolve_path ==
  /\ startup_pc = "resolve"
  /\ service_account_path' = Or(Or(EnvGet(GAC), EnvGet(SAKP)), Str(DefaultPath))
  /\ startup_pc' = "configure"
  /\ UNCHANGED <<environ, environ_at_start, files, startup_out, runner_vars, handler_vars>>

\* The start-up step without the test that the variable is not yet set.
configure_credentials_overwrite ==
  /\ startup_pc = "configure"
  /\ LET path == service_account_path.val IN
     IF exists(path)
       THEN /\ environ' = [environ EXCEPT ![GAC] = Str(abspath(path))]
            /\ startup_out' = <<"Using service account: " \o abspath(path)>>
       ELSE /\ environ' = environ
            /\ startup_out' = <<"Warning: Service account file not found at " \o path>>
  /\ startup_pc' = "done"
  /\ UNCHANGED <<environ_at_start, files, service_account_path, runner_vars, handler_vars>>

\* if exists(path) and not GAC: set GAC to the absolute path
\* elif not exists(path): print the warning
configure_credentials ==
  /\ startup_pc = "configure"
  /\ LET path == service_account_path.val IN
     IF exists(path) /\ ~Truthy(EnvGet(GAC))
       THEN /\ environ' = [environ EXCEPT ![GAC] = Str(abspath(path))]
            /\ startup_out' = <<"Using service account: " \o abspath(path)>>
       ELSE IF ~exists(path)
         THEN /\ environ' = environ
              /\ startup_out' =
                   << "Warning: Service account file not found at " \o path,
                      "Set GOOGLE_APPLICATION_CREDENTIALS or SERVICE_ACCOUNT_KEY_PATH to use service account authentication." >>
         ELSE /\ environ' = environ
              /\ startup_out' = <<>>
  /\ startup_pc' = "done"
  /\ UNCHANGED <<environ_at_start, files, service_account_path, runner_vars, handler_vars>>

\* ------------------------------------------------------------ specifications
RunnerInit ==
  /\ request = ""
  /\ script = [create |-> "ok", run |-> "ok", events |-> <<>>]
  /\ ncalls = 0
  /\ pc = [f \in Flows |-> "idle"]
  /\ final_result = [f \in Flows |-> ""]
  /\ session_id = [f \in Flows |-> 0]
  /\ event = [f \in Flows |-> NoEvent]
  /\ idx = [f \in Flows |-> 0]
  /\ exc = [f \in Flows |-> ""]
  /\ ret = [f \in Flows |-> NotReturned]
  /\ calls = [f \in Flows |-> <<>>]
  /\ stdout = [f \in Flows |-> <<>>]
  /\ uuid_state = [f \in Flows |-> 0]
  /\ sessions = [f \in Flows |-> <<>>]

HandlerInit ==
  /\ hcall = NoHandlerCall
  /\ hlog = {}
  /\ nhandler = 0

\* The process environment and file system the start-up code may find.
GacValues == {None, Str(""), Str("/keys/gac.json"), Str("keys/gac.json")}
SakpValues == {None, Str(""), Str("/keys/sa.json"), Str("keys/sa.json")}
AllFiles == {abspath(v.val) : v \in (GacValues \cup SakpValues) \ {None, Str("")}}
              \cup {abspath(DefaultPath)}

\* Start-up already done, in a process with neither variable and no key file.
StartupDone ==
  /\ environ = [n \in EnvNames |-> None]
  /\ environ_at_start = environ
  /\ files = {}
  /\ startup_pc = "done"
  /\ service_account_path = Str(DefaultPath)
  /\ startup_out =
       << "Warning: Service account file not found at " \o DefaultPath,
          "Set GOOGLE_APPLICATION_CREDENTIALS or SERVICE_ACCOUNT_KEY_PATH to use service account authentication." >>

\* The request flows of both scripts.
Init == RunnerInit /\ HandlerInit /\ StartupDone

Next ==
  \/ Submit
  \/ Collect
  \/ run_coordinator
  \/ run_support_coordinator

Spec == Init /\ [][Next]_vars

\* The stub handlers, called at any moment between and during requests.
HandlerScripts ==
  { [create |-> "ok", run |-> "ok", events |-> <<Ev(FALSE, FALSE, NoContent)>>],
    [create |-> "raise", run |-> "ok", events |-> <<>>] }

SubmitForHandlers == SubmitFrom({"Book me a hotel in Paris."}, HandlerScripts)

NextHandlers ==
  \/ CallHandler
  \/ SubmitForHandlers
  \/ Collect
  \/ run_coordinator
  \/ run_support_coordinator

SpecHandlers == Init /\ [][NextHandlers]_vars

\* The module-level start-up code of chapter 2, from any environment.
InitStartup ==
  /\ RunnerInit
  /\ HandlerInit
  /\ environ \in [EnvNames -> GacValues \cup SakpValues]
  /\ environ[GAC] \in GacValues
  /\ environ[SAKP] \in SakpValues
  /\ environ_at_start = environ
  /\ files \in SUBSET AllFiles
  /\ startup_pc = "resolve"
  /\ service_account_path = None
  /\ startup_out = <<>>

NextStartup ==
  \/ resolve_path
  \/ configure_credentials

SpecStartup == InitStartup /\ [][NextStartup]_vars


\* =================================================================== claims
\* What the claims say about a script and a finished call.
ErrorPrefix == "An error occurred while processing your request: "

IsErrorString(v) == v.type = "str" /\ v.val \in {ErrorPrefix \o m : m \in ExcMessages}

\* No exception anywhere in the collaborator's behaviour for the request.
NoException(sc) ==
  /\ sc.create = "ok"
  /\ sc.run = "ok"
  /\ \A i \in 1..Len(sc.events) : sc.events[i].kind = "event" /\ ~sc.events[i].broken

\* The text a final response carries: content.text when present and
\* non-empty, otherwise the non-empty part texts joined by a single space.
EventText(ev) ==
  IF ev.content.has_text /\ ev.content.text # "" THEN ev.content.text
  ELSE Join(TextParts(ev.content.parts))

CarriesText(ev) ==
  ev.kind = "event" /\ ev.final /\ ~ev.content.is_none /\ EventText(ev) # ""

HasFinalText(evs) == \E i \in 1..Len(evs) : CarriesText(evs[i])

FirstFinalText(evs) ==
  EventText(evs[CHOOSE i \in 1..Len(evs) :
                  CarriesText(evs[i]) /\ \A j \in 1..(i - 1) : ~CarriesText(evs[j])])

\* An exception was raised during the request of flow f.
Raised(f) == \E i \in 1..Len(calls[f]) : calls[f][i].outcome = "raise"

CountOp(f, op) == Cardinality({i \in 1..Len(calls[f]) : calls[f][i].op = op})

\* C1: when no exception is raised and some event is a final response carrying
\* text, a finished runner call has returned the text of the first such event.
C1_ReturnsFirstFinalText ==
  \A f \in Flows :
    (pc[f] = "done" /\ NoException(script) /\ HasFinalText(script.events))
      => ret[f] = Str(FirstFinalText(script.events))

\* C2: once the collaborator has raised during a request, the finished call has
\* returned (not propagated) a string that begins with the fixed error prefix.
C2_ExceptionBecomesErrorString ==
  \A f \in Flows : (pc[f] = "done" /\ Raised(f)) => IsErrorString(ret[f])

C2_Witness ==
  /\ pc["ch1"] = "done" /\ exc["ch1"] = ExcInspect /\ IsErrorString(ret["ch1"])
  /\ pc["ch2"] = "done" /\ exc["ch2"] = ExcInspect /\ IsErrorString(ret["ch2"])

\* C3: when no exception is raised and no event is a final response carrying
\* text (the empty sequence included), a finished call has returned "".
C3_ReturnsEmptyString ==
  \A f \in Flows :
    (pc[f] = "done" /\ NoException(script) /\ ~HasFinalText(script.events))
      => ret[f] = Str("")

\* C4: each call asks for exactly one session, before the request is
\* submitted; the request is submitted under that session's identifier; and no
\* two calls on one runner use the same identifier.
C4_OneFreshSessionPerCall ==
  \A f \in Flows :
    /\ pc[f] \in {"start", "uuid", "create"} => calls[f] = <<>>
    /\ pc[f] \in {"run", "next", "body", "except", "done"} =>
         /\ CountOp(f, "create_session") = 1
         /\ calls[f][1].op = "create_session"
         /\ calls[f][1].sid = session_id[f]
         /\ sessions[f][Len(sessions[f])] = session_id[f]
    /\ \A i \in 1..Len(calls[f]) :
         calls[f][i].op = "run" =>
           /\ i = 2
           /\ calls[f][1].outcome = "ok"
           /\ calls[f][i].sid = calls[f][1].sid
           /\ calls[f][i].text = request
    /\ \A i, j \in 1..Len(sessions[f]) : i # j => sessions[f][i] # sessions[f][j]
    /\ Len(sessions[f]) \in {ncalls - 1, ncalls}

C4_Witness ==
  /\ ncalls = 2
  /\ pc["ch1"] = "done"
  /\ Len(sessions["ch1"]) = 2
  /\ CountOp("ch1", "run") = 1

\* The value of a call as a function of the session-creation and run outcomes
\* and of the first event alone.
FromFirstOnly(sc) ==
  IF sc.create = "raise" THEN Str(ErrorPrefix \o ExcCreate)
  ELSE IF sc.run = "raise" THEN Str(ErrorPrefix \o ExcRun)
  ELSE IF sc.events = <<>> THEN None
  ELSE LET first == Head(sc.events) IN
       IF first.kind = "raise" THEN Str(ErrorPrefix \o ExcNext)
       ELSE IF first.broken THEN Str(ErrorPrefix \o ExcInspect)
       ELSE IF first.final /\ ~first.content.is_none THEN None
       ELSE Str("")

\* C8: at most the first event is ever pulled from the generator and
\* inspected, and the value a finished call returned is a function of the
\* session-creation and run outcomes and of the first event alone: later
\* events never influence it.
C8_OnlyFirstEventMatters ==
  \A f \in Flows :
    /\ idx[f] <= 1
    /\ CountOp(f, "is_final_response") <= 1
    /\ pc[f] = "done" => ret[f] = FromFirstOnly(script)

C8_Witness ==
  /\ Len(script.events) = 2
  /\ ~script.events[1].final /\ script.events[1].kind = "event" /\ ~script.events[1].broken
  /\ CarriesText(script.events[2])
  /\ pc["ch1"] = "done" /\ idx["ch1"] = 1 /\ ret["ch1"] = Str("")
  /\ pc["ch2"] = "done" /\ idx["ch2"] = 1 /\ ret["ch2"] = Str("")

\* C9: within one call, create_session is called at most once and run at most
\* once; run is not called when create_session raised; and a call that raised
\* is the last collaborator call of the request.
C9_NoRetry ==
  \A f \in Flows :
    /\ CountOp(f, "create_session") <= 1
    /\ CountOp(f, "run") <= 1
    /\ (\E i \in 1..Len(calls[f]) :
          calls[f][i].op = "create_session" /\ calls[f][i].outcome = "raise")
         => CountOp(f, "run") = 0
    /\ \A i \in 1..Len(calls[f]) : calls[f][i].outcome = "raise" => i = Len(calls[f])

C9_Witness ==
  /\ script.create = "raise"
  /\ \A f \in Flows :
       /\ pc[f] = "done"
       /\ Len(calls[f]) = 1
       /\ calls[f][1].op = "create_session"
       /\ IsErrorString(ret[f])

\* A call log without the session identifiers.
CallShape(cs) == [i \in 1..Len(cs) |-> [op |-> cs[i].op, text |-> cs[i].text,
                                         outcome |-> cs[i].outcome]]

\* C10: on the same request and the same collaborator behaviour the two flows
\* make the same collaborator calls (session identifiers aside) and return the
\* same value.
C10_FlowsEquivalent ==
  (pc["ch1"] = "done" /\ pc["ch2"] = "done") =>
    /\ ret["ch1"] = ret["ch2"]
    /\ CallShape(calls["ch1"]) = CallShape(calls["ch2"])

C10_Witness ==
  /\ pc["ch1"] = "done" /\ pc["ch2"] = "done"
  /\ script.run = "raise"
  /\ IsErrorString(ret["ch1"])
  /\ ret["ch1"] = ret["ch2"]
  /\ Len(calls["ch2"]) = 2


\* ------------------------------------------------------ stub handler claims
HandlerPrefix(h) ==
  CASE h = "booking_handler" -> "Booking action for "
    [] h = "info_handler" -> "Information request for "
    [] h = "unclear_handler" -> "Coordinator could not delegate request: "
    [] h = "technical_support_handler" -> "Technical support for "
    [] h = "billing_handler" -> "Billing inquiry for "
    [] h = "product_info_handler" -> "Product information for "

HandlerSuffix(h) ==
  CASE h = "booking_handler" -> " has been simulated."
    [] h = "info_handler" -> ". Result: Simulated information retrieval."
    [] h = "unclear_handler" -> ". Please clarify."
    [] h = "technical_support_handler" ->
         ": Troubleshooting steps have been provided. Issue logged for tracking."
    [] h = "billing_handler" -> ": Account information retrieved. Payment status confirmed."
    [] h = "product_info_handler" ->
         ": Detailed product specifications and features provided."

Quoted(s) == "'" \o s \o "'"

\* C5: every value a stub handler returned is the handler's fixed prefix, the
\* argument verbatim inside single quotes, and the handler's fixed suffix; the
\* billing example of the specification yields its documented string.
C5_HandlerFormat ==
  /\ \A t \in hlog : t[3] = HandlerPrefix(t[1]) \o Quoted(t[2]) \o HandlerSuffix(t[1])
  /\ hcall.handler # "" =>
       hcall.ret = HandlerPrefix(hcall.handler) \o Quoted(hcall.arg) \o HandlerSuffix(hcall.handler)
  /\ (hcall.handler = "billing_handler" /\ hcall.arg = "What are the payment options available?")
       => hcall.ret = "Billing inquiry for 'What are the payment options available?': Account information retrieved. Payment status confirmed."
  /\ (hcall.handler = "booking_handler" /\ hcall.arg = "it's")
       => hcall.ret = "Booking action for 'it's' has been simulated."

C5_Witness ==
  /\ hcall.handler = "billing_handler"
  /\ hcall.arg = "What are the payment options available?"
  /\ \E t \in hlog : t[1] = "booking_handler" /\ t[2] = "it's"

\* All values one handler returned for one argument are the same value.
C6_SameArgumentSameResult ==
  \A a, b \in hlog : (a[1] = b[1] /\ a[2] = b[2]) => a[3] = b[3]

\* A handler call changes nothing of the runners' or the start-up code's state.
C6_HandlerCallFrame ==
  [][nhandler' # nhandler => UNCHANGED <<runner_vars, startup_vars>>]_vars

NonEmpty(v) == v.type = "str" /\ v.val # ""

IsSet(v) == v.type = "str"

====
